---- MODULE Spec2Model ----
(***************************************************************************)
(* pgds: dynamic statistics.  A model of src/pgds.c: the post-parse-analyze *)
(* hook pgds_analyze, which collects the relations of a query              *)
(* (pgds_tree_walker), expands them into tables (pgds_build_table_array)   *)
(* and runs ANALYZE on the tables that have no statistics                  *)
(* (pgds_analyze_table), under the recursion flag pgds_avoid_recursion.    *)
(*                                                                         *)
(* One backend (session) is modelled.  The C call stack is the variable    *)
(* stack: one frame per active invocation of pgds_analyze.  A frame stops  *)
(* at the points where pgds.c hands control to the server (SPI_execute),   *)
(* because the server re-enters the hook there.  elog(ERROR) unwinds the   *)
(* whole stack and leaves the module's static variables as they are;       *)
(* elog(FATAL) ends the backend.                                           *)
(*                                                                         *)
(* The static arrays are modelled by their live prefix: pgds_rel_array is  *)
(* the sequence pgds_rel_array[0 .. pgds_rel_index), and likewise the three *)
(* table arrays; the code never reads an array beyond its index.           *)
(***************************************************************************)
EXTENDS Integers, Sequences, FiniteSets, TLC

VARIABLES
    pgds_avoid_recursion,    \* static int pgds_avoid_recursion
    pgds_rel_array,          \* pgds_rel_array[0 .. pgds_rel_index)
    pgds_tableoid_array,     \* pgds_tableoid_array[0 .. pgds_table_index)
    pgds_tablename_array,    \* pgds_tablename_array[0 .. pgds_table_index)
    pgds_tableowner_array,   \* pgds_tableowner_array[0 .. pgds_table_index)
    stack,                   \* active invocations of pgds_analyze, innermost last
    outcome,                 \* how the last top-level statement ended
    pg_statistic,            \* the tables that have rows in pg_statistic
    principal,               \* superuser() and GetUserId() of the session
    prev_post_parse_analyze_hook,  \* the hook _PG_init found installed, or NULL
    calls                    \* the SPI calls of the current top-level statement

vars == <<pgds_avoid_recursion, pgds_rel_array, pgds_tableoid_array,
          pgds_tablename_array, pgds_tableowner_array, stack, outcome,
          pg_statistic, principal, prev_post_parse_analyze_hook, calls>>

\* what is fixed when the backend starts
session == <<principal, prev_post_parse_analyze_hook>>

-----------------------------------------------------------------------------
(* Bounds.  MAX_REL and MAX_TABLE are the capacities of the static arrays,  *)
(* scaled down from 1024 and 10*1024 so that a query can fill them.         *)

MAX_REL == 2

MAX_TABLE == 3

\* direct relation entries of one query of the model
MaxRte == 3

InvalidOid == 0

pgds_rel_index == Len(pgds_rel_array)

pgds_table_index == Len(pgds_tableoid_array)

-----------------------------------------------------------------------------
(* The catalog of the modelled database.                                    *)
(*   1 "a"  ordinary table, owner 10      4 "v"  view over a, b             *)
(*   2 "b"  ordinary table, owner 11      5 "w"  view over a, b, p, v       *)
(*   3 "p"  partitioned table, owner 10   6 "m"  materialized view          *)
(*   7      an id with no row in pg_class                                   *)

pg_class ==
    [o \in 1..6 |->
        CASE o = 1 -> [relname |-> "a", relkind |-> "r", relowner |-> 10]
          [] o = 2 -> [relname |-> "b", relkind |-> "r", relowner |-> 11]
          [] o = 3 -> [relname |-> "p", relkind |-> "p", relowner |-> 10]
          [] o = 4 -> [relname |-> "v", relkind |-> "v", relowner |-> 10]
          [] o = 5 -> [relname |-> "w", relkind |-> "v", relowner |-> 11]
          [] o = 6 -> [relname |-> "m", relkind |-> "m", relowner |-> 10]]

Oids == 0..7

\* a row of find_tables: (rel_id, rel_name, rel_kind, rel_owner)
Row(o) ==
    [id |-> o, name |-> pg_class[o].relname, kind |-> pg_class[o].relkind,
     owner |-> pg_class[o].relowner]

\* SELECT * from find_tables(rel_id): the relations a view depends on
find_tables(rel_id) ==
    CASE rel_id = 4 -> <<Row(1), Row(2)>>
      [] rel_id = 5 -> <<Row(1), Row(3), Row(4), Row(2)>>
      [] OTHER -> <<>>

\* the table a relation name of an ANALYZE command resolves to
RelByName(name) == CHOOSE o \in DOMAIN pg_class : pg_class[o].relname = name

\* select count(*) from pg_statistic where starelid = id
CountStatistics(id, statistic) == IF id \in statistic THEN "1" ELSE "0"

-----------------------------------------------------------------------------
(* Query trees.  A Query has a range table, a list of CTE queries and the   *)
(* sub-queries of the SubLink nodes of its expressions; hasSubLinks is set  *)
(* by the parser exactly when the query's expressions contain a SubLink.    *)

NULL == [tag |-> "NULL"]

Query(rt, ctes, subs) ==
    [tag |-> "Query", rtable |-> rt, cteList |-> ctes, sublinks |-> subs,
     hasSubLinks |-> subs # <<>>]

RelationRte(o) == [rtekind |-> "RTE_RELATION", relid |-> o, subquery |-> NULL]

SubqueryRte(q) == [rtekind |-> "RTE_SUBQUERY", relid |-> InvalidOid, subquery |-> q]

ValuesRte == [rtekind |-> "RTE_VALUES", relid |-> InvalidOid, subquery |-> NULL]

\* sequences over S of length at most n
RECURSIVE SeqsUpTo(_, _)
SeqsUpTo(S, n) ==
    IF n = 0 THEN {<<>>}
    ELSE LET shorter == SeqsUpTo(S, n - 1)
         IN shorter \cup {Append(s, x) : s \in {t \in shorter : Len(t) = n - 1}, x \in S}

RteSeqs(n) == SeqsUpTo({RelationRte(o) : o \in Oids}, n)

Channels == {"subquery", "cte", "sublink"}

\* a query with the direct entries rt and the query inner nested through channel c
Nest(rt, c, inner) ==
    CASE c = "subquery" -> Query(Append(rt, SubqueryRte(inner)), <<>>, <<>>)
      [] c = "cte"      -> Query(rt, <<inner>>, <<>>)
      [] c = "sublink"  -> Query(rt, <<>>, <<inner>>)

Leaves(n) == {Query(rt, <<>>, <<>>) : rt \in RteSeqs(n)}

\* the statements a client submits
Queries ==
    Leaves(MaxRte)
    \cup {Nest(rt, c, inner) : rt \in RteSeqs(1), c \in Channels, inner \in Leaves(1)}
    \cup {Nest(<<ValuesRte>>, c, Nest(<<>>, d, inner)) :
              c \in Channels, d \in Channels, inner \in Leaves(1)}

\* the statements pgds.c itself submits through SPI_execute; the server
\* analyses them and so calls the hook for them
SpiQueries == {Query(<<>>, <<>>, <<>>), Query(<<RelationRte(1)>>, <<>>, <<>>)}

-----------------------------------------------------------------------------
(* Relation-reference collector: pgds_add_rel_array, pgds_tree_walker,      *)
(* pgds_sublink_walker.  The walk threads st = [arr, err]: the relation     *)
(* array built so far and whether elog(ERROR) was raised.                   *)

\* the loop of pgds_add_rel_array that looks for relid in the array
RelFound(arr, relid) == \E i \in 1..Len(arr) : arr[i] = relid

\* the test that guards the insertion into pgds_rel_array
RelHasRoom(arr) == Len(arr) < MAX_REL

\* an insertion that drops the id when the array is full
pgds_add_rel_array_Truncating(st, relid) ==
    IF st.err THEN st
    ELSE IF RelFound(st.arr, relid) THEN st
    ELSE IF RelHasRoom(st.arr) THEN [st EXCEPT !.arr = Append(st.arr, relid)]
    ELSE st

pgds_add_rel_array(st, relid) ==
    IF st.err THEN st
    ELSE IF RelFound(st.arr, relid) THEN st
    ELSE IF RelHasRoom(st.arr) THEN [st EXCEPT !.arr = Append(st.arr, relid)]
    ELSE [st EXCEPT !.err = TRUE]

RECURSIVE pgds_tree_walker(_, _)
RECURSIVE WalkRtable(_, _, _)
RECURSIVE WalkCteList(_, _, _)
RECURSIVE pgds_sublink_walker(_, _, _)

\* foreach(lc, node->rtable), from entry k on
WalkRtable(rtable, k, st) ==
    IF k > Len(rtable) \/ st.err THEN st
    ELSE LET rte == rtable[k]
             s1 == IF rte.rtekind = "RTE_RELATION"
                   THEN pgds_add_rel_array(st, rte.relid) ELSE st
             s2 == IF rte.rtekind = "RTE_SUBQUERY"
                   THEN pgds_tree_walker(rte.subquery, s1) ELSE s1
         IN WalkRtable(rtable, k + 1, s2)

\* a walk that leaves the CTE definitions out
WalkCteList_Skipped(cteList, k, st) == st

\* foreach(l, node->cteList), from entry k on
WalkCteList(cteList, k, st) ==
    IF k > Len(cteList) \/ st.err THEN st
    ELSE WalkCteList(cteList, k + 1, pgds_tree_walker(cteList[k], st))

\* query_tree_walker(node, pgds_sublink_walker, ..., QTW_IGNORE_RC_SUBQUERIES):
\* the walker reaches each SubLink of the query's expressions, from k on, and
\* walks its subselect; it does not descend into Query nodes
pgds_sublink_walker(sublinks, k, st) ==
    IF k > Len(sublinks) \/ st.err THEN st
    ELSE pgds_sublink_walker(sublinks, k + 1, pgds_tree_walker(sublinks[k], st))

pgds_tree_walker(node, st) ==
    IF st.err \/ node = NULL THEN st
    ELSE LET s1 == WalkRtable(node.rtable, 1, st)
             s2 == WalkCteList(node.cteList, 1, s1)
         IN IF node.hasSubLinks THEN pgds_sublink_walker(node.sublinks, 1, s2)
            ELSE s2

\* the walk starts from the array as the previous statement left it
pgds_build_rel_array(query, arr) ==
    pgds_tree_walker(query, [arr |-> arr, err |-> FALSE])

-----------------------------------------------------------------------------
(* Dependency-closure expander: the insertions of pgds_build_table_array.   *)
(* t = [oid, name, owner, err]: the three table arrays and whether          *)
(* elog(ERROR) was raised.                                                  *)

\* the test that guards both insertions into the table arrays
TableHasRoom(n) == n < MAX_TABLE

AddTable(t, id, name, owner) ==
    IF t.err THEN t
    ELSE IF TableHasRoom(Len(t.oid))
    THEN [t EXCEPT !.oid = Append(t.oid, id), !.name = Append(t.name, name),
                   !.owner = Append(t.owner, owner)]
    ELSE [t EXCEPT !.err = TRUE]

\* relkind of a directly referenced relation that is stored as a table
IsTableKind(relkind) == relkind = "r" \/ relkind = "p"

\* a test that takes every other kind for a view
IsViewKind_Any(relkind) == TRUE

\* relkind of a directly referenced relation that is expanded
IsViewKind(relkind) == relkind = "v"

\* a row test that forgets the kind
IsTableRow_AnyKind(row) == row.id # InvalidOid

\* the rows of find_tables that are stored as tables
IsTableRow(row) == row.kind = "r" /\ row.id # InvalidOid

\* for (j = 0; j < nr; j++) over the rows of find_tables, from row j on
RECURSIVE AddRows(_, _, _)
AddRows(rows, j, t) ==
    IF j > Len(rows) \/ t.err THEN t
    ELSE AddRows(rows, j + 1,
                 IF IsTableRow(rows[j])
                 THEN AddTable(t, rows[j].id, rows[j].name, rows[j].owner)
                 ELSE t)

TableArrays ==
    [oid |-> pgds_tableoid_array, name |-> pgds_tablename_array,
     owner |-> pgds_tableowner_array, err |-> FALSE]

SetTableArrays(t) ==
    /\ pgds_tableoid_array' = t.oid
    /\ pgds_tablename_array' = t.name
    /\ pgds_tableowner_array' = t.owner

tablevars == <<pgds_tableoid_array, pgds_tablename_array, pgds_tableowner_array>>

-----------------------------------------------------------------------------
(* The call stack and the ways an invocation ends.                          *)

Top == stack[Len(stack)]

Frame(pc, query, i) == [pc |-> pc, query |-> query, i |-> i]

\* the innermost frame moves to pc with loop index i
Goto(pc, i) == stack' = [stack EXCEPT ![Len(stack)] = Frame(pc, Top.query, i)]

\* elog(ERROR): longjmp to the server's main loop; the statement fails, the
\* session goes on, nothing of pgds.c runs on the way out
RaiseError == stack' = <<>> /\ outcome' = "error"

\* elog(FATAL): the backend exits
RaiseFatal == stack' = <<>> /\ outcome' = "fatal"

\* the positions after the guarded block: before and after the previous hook
HookPcs == {"hook", "exit"}

\* the positions where an SPI_execute of pgds.c is in progress
SpiPcs == {"spi_lookup", "spi_find", "spi_stat", "spi_analyze"}

\* return codes of SPI_execute for a SELECT and for a utility command
SelectRets == {"SPI_OK_SELECT", "SPI_ERROR_ARGUMENT"}

UtilityRets == {"SPI_OK_UTILITY", "SPI_ERROR_ARGUMENT"}

\* if (ret != SPI_OK_SELECT)
SelectFailed(ret) == ret # "SPI_OK_SELECT"

Issue(op, id) == calls' = Append(calls, [op |-> op, id |-> id, res |-> "pending"])

Answer(res) == calls' = [calls EXCEPT ![Len(calls)].res = res]

-----------------------------------------------------------------------------
\* a hook that another extension installed before pgds was loaded
PrevHook == [tag |-> "post_parse_analyze_hook"]

Principals ==
    {[superuser |-> TRUE, userid |-> 11], [superuser |-> FALSE, userid |-> 10],
     [superuser |-> FALSE, userid |-> 11]}

Init ==
    /\ pgds_avoid_recursion = 0
    /\ pgds_rel_array = <<>>
    /\ pgds_tableoid_array = <<>>
    /\ pgds_tablename_array = <<>>
    /\ pgds_tableowner_array = <<>>
    /\ stack = <<>>
    /\ outcome = "none"
    /\ pg_statistic \in SUBSET {2}
    /\ principal \in Principals
    /\ prev_post_parse_analyze_hook \in {NULL, PrevHook}
    /\ calls = <<>>

\* a guard that lets every invocation through
GuardIdle_Ignored == TRUE

\* if (pgds_avoid_recursion == 0)
GuardIdle == pgds_avoid_recursion = 0

\* The server calls the hook for an analysed statement, one of queries.
\* pgds_analyze from its entry to the first loop: the guard, the flag and
\* pgds_build_rel_array (the walk calls nothing outside pgds.c).  An
\* invocation that finds the guard set never reads its query.
pgds_analyze(queries) ==
    IF GuardIdle
    THEN \E query \in queries :
            LET st == pgds_build_rel_array(query, pgds_rel_array)
            IN /\ pgds_avoid_recursion' = 1
               /\ pgds_rel_array' = st.arr
               /\ IF st.err THEN RaiseError
                  ELSE /\ stack' = Append(stack, Frame("expand", query, 1))
                       /\ outcome' = "running"
    ELSE /\ stack' = Append(stack, Frame("hook", NULL, 0))
         /\ outcome' = "running"
         /\ UNCHANGED <<pgds_avoid_recursion, pgds_rel_array>>

\* the server analyses a statement of the client
Statement ==
    /\ stack = <<>>
    /\ outcome # "fatal"
    /\ pgds_analyze(Queries)
    /\ calls' = <<>>
    /\ UNCHANGED <<tablevars, pg_statistic, session>>

\* the server analyses a statement that pgds.c runs through SPI_execute
Reenter ==
    /\ stack # <<>>
    /\ Top.pc \in SpiPcs
    /\ pgds_analyze(SpiQueries)
    /\ UNCHANGED <<tablevars, pg_statistic, session, calls>>

\* if (rel_id == 0) return;
IsInvalidRel(rel_id) == rel_id = InvalidOid

\* an expansion loop that ends after its first round
ExpandLoopDone_Early(i) == i > 1 \/ i > pgds_rel_index

\* for (i = 0; i < pgds_rel_index; i++) has run out (i counts from 1 here)
ExpandLoopDone(i) == i > pgds_rel_index

\* for (i = 0; i < pgds_rel_index; i++) pgds_build_table_array(pgds_rel_array[i])
\* up to the SPI_execute of pgds_get_rel_details
pgds_build_table_array ==
    /\ stack # <<>>
    /\ Top.pc = "expand"
    /\ IF ExpandLoopDone(Top.i)
       THEN Goto("maintain", 1) /\ UNCHANGED calls
       ELSE IF IsInvalidRel(pgds_rel_array[Top.i])
       THEN Goto("expand", Top.i + 1) /\ UNCHANGED calls
       ELSE Goto("spi_lookup", Top.i) /\ Issue("lookup", pgds_rel_array[Top.i])
    /\ UNCHANGED <<pgds_avoid_recursion, pgds_rel_array, tablevars, outcome,
                   pg_statistic, session>>

\* pgds_get_rel_details after its SPI_execute, and pgds_build_table_array up to
\* its return or to the SPI_execute of find_tables
pgds_get_rel_details ==
    /\ stack # <<>>
    /\ Top.pc = "spi_lookup"
    /\ LET rel_id == pgds_rel_array[Top.i] IN
       \E ret \in SelectRets :
          IF SelectFailed(ret)
          THEN RaiseFatal /\ Answer(ret) /\ UNCHANGED tablevars
          ELSE IF rel_id \notin DOMAIN pg_class
          THEN RaiseFatal /\ Answer("0 rows") /\ UNCHANGED tablevars
          ELSE LET rel == pg_class[rel_id] IN
               IF IsTableKind(rel.relkind)
               THEN LET t == AddTable(TableArrays, rel_id, rel.relname, rel.relowner)
                    IN /\ SetTableArrays(t)
                       /\ Answer(rel.relkind)
                       /\ IF t.err THEN RaiseError
                          ELSE Goto("expand", Top.i + 1) /\ UNCHANGED outcome
               ELSE IF IsViewKind(rel.relkind)
               THEN /\ Goto("spi_find", Top.i)
                    /\ calls' = Append([calls EXCEPT ![Len(calls)].res = rel.relkind],
                                       [op |-> "expandView", id |-> rel_id,
                                        res |-> "pending"])
                    /\ UNCHANGED <<tablevars, outcome>>
               ELSE RaiseFatal /\ Answer(rel.relkind) /\ UNCHANGED tablevars
    /\ UNCHANGED <<pgds_avoid_recursion, pgds_rel_array, pg_statistic, session>>

\* pgds_build_table_array after the SPI_execute of find_tables
pgds_expand_view ==
    /\ stack # <<>>
    /\ Top.pc = "spi_find"
    /\ \E ret \in SelectRets :
          IF SelectFailed(ret)
          THEN RaiseFatal /\ Answer(ret) /\ UNCHANGED tablevars
          ELSE LET t == AddRows(find_tables(pgds_rel_array[Top.i]), 1, TableArrays)
               IN /\ SetTableArrays(t)
                  /\ Answer(ret)
                  /\ IF t.err THEN RaiseError
                     ELSE Goto("expand", Top.i + 1) /\ UNCHANGED outcome
    /\ UNCHANGED <<pgds_avoid_recursion, pgds_rel_array, pg_statistic, session>>

\* an end of run that leaves the index where it is
ResetIndex_Skipped(arr) == arr

\* pgds_rel_index = 0; pgds_table_index = 0; no entry of the array is live
ResetIndex(arr) == <<>>

\* an authorization check that lets everyone through
MayAnalyze_Anyone(owner) == TRUE

\* if (!superuser() && GetUserId() != pgds_tableowner_array[index]) is false
MayAnalyze(owner) == principal.superuser \/ principal.userid = owner

\* for (i = 0; i < pgds_table_index; i++) pgds_analyze_table(i) up to the
\* SPI_execute on pg_statistic, and the end of the guarded block
pgds_analyze_table ==
    /\ stack # <<>>
    /\ Top.pc = "maintain"
    /\ IF Top.i > pgds_table_index
       THEN /\ pgds_avoid_recursion' = 0
            /\ pgds_rel_array' = ResetIndex(pgds_rel_array)
            /\ SetTableArrays([oid |-> ResetIndex(pgds_tableoid_array),
                               name |-> ResetIndex(pgds_tablename_array),
                               owner |-> ResetIndex(pgds_tableowner_array)])
            /\ Goto("hook", 0)
            /\ UNCHANGED calls
       ELSE /\ IF MayAnalyze(pgds_tableowner_array[Top.i])
               THEN /\ Goto("spi_stat", Top.i)
                    /\ Issue("hasStatistics", pgds_tableoid_array[Top.i])
               ELSE Goto("maintain", Top.i + 1) /\ UNCHANGED calls
            /\ UNCHANGED <<pgds_avoid_recursion, pgds_rel_array, tablevars>>
    /\ UNCHANGED <<outcome, pg_statistic, session>>

\* a presence check that always finds the statistics missing
NoStatistics_Always(count_val) == TRUE

\* strcmp(count_val, "0") == 0
NoStatistics(count_val) == count_val = "0"

\* a result check that takes every return code for a success
AnalyzeFailed_Ignored(ret) == FALSE

\* if (ret != SPI_OK_UTILITY)
AnalyzeFailed(ret) == ret # "SPI_OK_UTILITY"

\* pgds_analyze_table after the SPI_execute on pg_statistic, up to its return
\* or to the SPI_execute of the ANALYZE command
pgds_check_statistics ==
    /\ stack # <<>>
    /\ Top.pc = "spi_stat"
    /\ \E ret \in SelectRets :
          IF SelectFailed(ret)
          THEN RaiseFatal /\ Answer(ret)
          ELSE LET count_val == CountStatistics(pgds_tableoid_array[Top.i], pg_statistic)
               IN IF NoStatistics(count_val)
                  THEN /\ Goto("spi_analyze", Top.i)
                       /\ calls' = Append([calls EXCEPT ![Len(calls)].res = count_val],
                                          [op |-> "collectStatistics",
                                           id |-> RelByName(pgds_tablename_array[Top.i]),
                                           res |-> "pending"])
                       /\ UNCHANGED outcome
                  ELSE /\ Goto("maintain", Top.i + 1)
                       /\ Answer(count_val)
                       /\ UNCHANGED outcome
    /\ UNCHANGED <<pgds_avoid_recursion, pgds_rel_array, tablevars, pg_statistic,
                   session>>

\* pgds_analyze_table after the SPI_execute of the ANALYZE command
pgds_run_analyze ==
    /\ stack # <<>>
    /\ Top.pc = "spi_analyze"
    /\ \E ret \in UtilityRets :
          /\ Answer(ret)
          /\ pg_statistic' =
                LET id == RelByName(pgds_tablename_array[Top.i])
                IN IF ret # "SPI_OK_UTILITY" THEN pg_statistic
                   ELSE pg_statistic \cup {id}
          /\ IF AnalyzeFailed(ret) THEN RaiseFatal
             ELSE Goto("maintain", Top.i + 1) /\ UNCHANGED outcome
    /\ UNCHANGED <<pgds_avoid_recursion, pgds_rel_array, tablevars, session>>

\* a test that never finds a previous hook
PrevHookInstalled_Never == FALSE

\* if (prev_post_parse_analyze_hook)
PrevHookInstalled == prev_post_parse_analyze_hook # NULL

\* pgds_analyze after the guarded block: the call of the previous hook
pgds_call_prev_hook ==
    /\ stack # <<>>
    /\ Top.pc = "hook"
    /\ PrevHookInstalled
    /\ Goto("exit", 0)
    /\ UNCHANGED <<pgds_avoid_recursion, pgds_rel_array, tablevars, outcome,
                   pg_statistic, session, calls>>

\* pgds_analyze returns, past a previous hook that is NULL or was called
pgds_analyze_exit ==
    /\ stack # <<>>
    /\ Top.pc = "exit" \/ (Top.pc = "hook" /\ ~PrevHookInstalled)
    /\ stack' = SubSeq(stack, 1, Len(stack) - 1)
    /\ outcome' = IF Len(stack) = 1 THEN "returned" ELSE outcome
    /\ calls' = IF Len(stack) = 1 THEN <<>> ELSE calls
    /\ UNCHANGED <<pgds_avoid_recursion, pgds_rel_array, tablevars, pg_statistic,
                   session>>

Next ==
    \/ Statement
    \/ Reenter
    \/ pgds_build_table_array
    \/ pgds_get_rel_details
    \/ pgds_expand_view
    \/ pgds_analyze_table
    \/ pgds_check_statistics
    \/ pgds_run_analyze
    \/ pgds_call_prev_hook
    \/ pgds_analyze_exit

Spec == Init /\ [][Next]_vars

\* the steps pgds.c takes on its own, between two SPI_execute calls
pgds_step ==
    pgds_build_table_array \/ pgds_analyze_table \/ pgds_call_prev_hook \/ pgds_analyze_exit

\* the returns of SPI_execute into pgds.c
SPI_return ==
    pgds_get_rel_details \/ pgds_expand_view \/ pgds_check_statistics \/ pgds_run_analyze

\* The code between two SPI_execute calls runs on without waiting, and an
\* SPI_execute, however often the statement it runs comes back into the hook,
\* returns in the end.
Fairness == WF_vars(pgds_step) /\ SF_vars(SPI_return)

LiveSpec == Spec /\ Fairness

-----------------------------------------------------------------------------
(* The collector on its own: pgds_build_rel_array applied once to a query   *)
(* tree, from the empty array. The frame keeps the query after the walk,    *)
(* also when the walk raised elog(ERROR), so that the array can be compared *)
(* with the tree it was built from.                                         *)

\* trees that use the three channels at once, besides the client's statements
CollectQueries ==
    Queries
    \cup {Query(Append(rt, SubqueryRte(x)), <<y>>, <<z>>) :
              rt \in RteSeqs(1), x \in Leaves(1), y \in Leaves(1), z \in Leaves(1)}

InitCollect ==
    /\ pgds_avoid_recursion = 1
    /\ pgds_rel_array = <<>>
    /\ pgds_tableoid_array = <<>>
    /\ pgds_tablename_array = <<>>
    /\ pgds_tableowner_array = <<>>
    /\ \E query \in CollectQueries : stack = <<Frame("collect", query, 0)>>
    /\ outcome = "running"
    /\ pg_statistic = {}
    /\ principal = [superuser |-> TRUE, userid |-> 11]
    /\ prev_post_parse_analyze_hook = NULL
    /\ calls = <<>>

\* pgds_build_rel_array(query)
pgds_collect ==
    /\ stack # <<>>
    /\ Top.pc = "collect"
    /\ LET st == pgds_build_rel_array(Top.query, pgds_rel_array)
       IN /\ pgds_rel_array' = st.arr
          /\ outcome' = IF st.err THEN "error" ELSE "returned"
          /\ stack' = <<Frame("collected", Top.query, 0)>>
    /\ UNCHANGED <<pgds_avoid_recursion, tablevars, pg_statistic, session, calls>>

SpecCollect == InitCollect /\ [][pgds_collect]_vars

-----------------------------------------------------------------------------
(* Properties.                                                              *)

\* the ids of the relation entries of a query, through the range table, its
\* sub-queries, the CTE list and the sub-links
RECURSIVE RefIds(_)
RefIds(q) ==
    IF q = NULL THEN {}
    ELSE {q.rtable[k].relid : k \in {n \in 1..Len(q.rtable) :
                                        q.rtable[n].rtekind = "RTE_RELATION"}}
         \cup UNION {RefIds(q.rtable[k].subquery) : k \in 1..Len(q.rtable)}
         \cup UNION {RefIds(q.cteList[k]) : k \in 1..Len(q.cteList)}
         \cup UNION {RefIds(q.sublinks[k]) : k \in 1..Len(q.sublinks)}

Elems(seq) == {seq[k] : k \in 1..Len(seq)}

\* an invocation of the hook is between the walk and the end of its pipeline
Running == stack # <<>> /\ stack[1].pc \notin HookPcs

\* a step that pushes a frame while the flag is set pushes a frame that is
\* already past the pipeline and changes nothing else; a frame that skipped
\* the pipeline only calls the previous hook and returns
C1_SkippedStep ==
    /\ (Len(stack') > Len(stack) /\ pgds_avoid_recursion # 0) =>
          /\ stack' = Append(stack, Frame("hook", NULL, 0))
          /\ calls' \in {calls, <<>>}
          /\ UNCHANGED <<pgds_rel_array, tablevars, pg_statistic, pgds_avoid_recursion>>
    /\ (stack # <<>> /\ Top.query = NULL) =>
          /\ \/ stack' = SubSeq(stack, 1, Len(stack) - 1)
             \/ stack' = [stack EXCEPT ![Len(stack)] = Frame("exit", NULL, 0)]
          /\ calls' \in {calls, <<>>}
          /\ UNCHANGED <<pgds_rel_array, tablevars, pg_statistic, pgds_avoid_recursion>>

\* C1: an invocation of pgds_analyze that finds pgds_avoid_recursion # 0
\* goes straight to the previous hook: it walks no tree, issues no catalog or
\* maintenance call and leaves the relation array, the table arrays and the
\* statistics as they are; and all such an invocation does afterwards is
\* call the previous hook and return.
C1_ReentrancySafety == [][C1_SkippedStep]_vars

\* a nested invocation was skipped while the ANALYZE of the running pipeline
\* was in progress
C1_Witness ==
    /\ Len(stack) = 2
    /\ stack[1].pc = "spi_analyze"
    /\ stack[2] = Frame("hook", NULL, 0)
    /\ pgds_avoid_recursion = 1
    /\ pgds_rel_array # <<>>

\* C2: whenever no invocation of the hook is active in a live session, the
\* guard is Idle (pgds_avoid_recursion = 0), however the last run ended.
C2_GuardIdleBetweenStatements ==
    (stack = <<>> /\ outcome # "fatal") => pgds_avoid_recursion = 0

\* C3: the resolved-table sequence holds no table id twice.
C3_NoDuplicateTables ==
    \A i, j \in 1..pgds_table_index :
        i # j => pgds_tableoid_array[i] # pgds_tableoid_array[j]

\* the running pipeline has expanded every relation of the reference set
ExpansionDone == Running /\ stack[1].pc \in {"maintain", "spi_stat", "spi_analyze"}

Views == {o \in DOMAIN pg_class : pg_class[o].relkind = "v"}

\* the ids of the rows of kind in kinds that the expansion of view v returns
Dependencies(v, kinds) ==
    {find_tables(v)[k].id : k \in {n \in 1..Len(find_tables(v)) :
                                      find_tables(v)[n].kind \in kinds}}

\* C4: when the expansion of a run has ended, for every view that the query
\* references anywhere (range table, range-table sub-query, CTE, sub-link),
\* the base tables its expansion returns are in the resolved-table sequence
\* and the view itself is not.
C4_ClosureCompleteness ==
    ExpansionDone =>
        \A v \in RefIds(stack[1].query) \cap Views :
            /\ Dependencies(v, {"r", "p"}) \subseteq Elems(pgds_tableoid_array)
            /\ v \notin Elems(pgds_tableoid_array)

\* the principal of the session may maintain the table id (by the catalog)
Authorized(id) == principal.superuser \/ principal.userid = pg_class[id].relowner

Call(op, id, res) == [op |-> op, id |-> id, res |-> res]

\* the statistics of the table at index k were looked for, and collected
\* with success when they were missing
Maintained(k) ==
    \E c \in 1..Len(calls) :
        \/ calls[c] = Call("hasStatistics", pgds_tableoid_array[k], "1")
        \/ /\ calls[c] = Call("hasStatistics", pgds_tableoid_array[k], "0")
           /\ c < Len(calls)
           /\ calls[c + 1] = Call("collectStatistics", pgds_tableoid_array[k],
                                  "SPI_OK_UTILITY")

\* no statistics call of the run is about a table the principal may not
\* maintain, and every table before the current one that the principal may
\* maintain was maintained
C5_Inv ==
    /\ \A c \in 1..Len(calls) :
          calls[c].op \in {"hasStatistics", "collectStatistics"} =>
             Authorized(calls[c].id)
    /\ ExpansionDone =>
          \A k \in 1..(stack[1].i - 1) :
             Authorized(pgds_tableoid_array[k]) => Maintained(k)

\* reaching a table the principal may not maintain only moves to the next
\* table: no call, no error, no end of the run
C5_Step ==
    (/\ ExpansionDone
     /\ Top.pc = "maintain"
     /\ Top.i <= pgds_table_index
     /\ ~Authorized(pgds_tableoid_array[Top.i])) =>
        /\ stack' = <<Frame("maintain", Top.query, Top.i + 1)>>
        /\ UNCHANGED <<outcome, calls, pg_statistic, tablevars, pgds_avoid_recursion>>

\* C5: for a principal that is neither superuser nor owner of a resolved
\* table T, the run issues no hasStatistics and no collectStatistics for T
\* and does not fail at T, and the tables the principal owns are still
\* checked, and analysed when they lack statistics, before and after T.
C5_AuthorizationBoundary == []C5_Inv /\ [][C5_Step]_vars

\* user 10 ran a statement over a, b, p: b (owner 11) was passed over between
\* a and p, which were both analysed
C5_Witness ==
    /\ principal = [superuser |-> FALSE, userid |-> 10]
    /\ ExpansionDone
    /\ pgds_tableoid_array = <<1, 2, 3>>
    /\ stack[1].pc = "maintain"
    /\ stack[1].i = 4
    /\ \E c \in 1..Len(calls) : calls[c] = Call("collectStatistics", 1, "SPI_OK_UTILITY")
    /\ \E c \in 1..Len(calls) : calls[c] = Call("collectStatistics", 3, "SPI_OK_UTILITY")
    /\ \A c \in 1..Len(calls) : calls[c].id = 2 => calls[c].op = "expandView"

\* C6: every collectStatistics call of a run comes right after a
\* hasStatistics check of the same table that found no statistics, and no
\* collectStatistics call is in progress for a table that has statistics; so
\* a run over a table that an earlier run left with statistics does not
\* collect them again.
C6_CollectOnlyWhenMissing ==
    /\ \A c \in 1..Len(calls) :
          calls[c].op = "collectStatistics" =>
             /\ c > 1
             /\ calls[c - 1] = Call("hasStatistics", calls[c].id, "0")
    /\ (calls # <<>> /\ calls[Len(calls)].op = "collectStatistics"
          /\ calls[Len(calls)].res = "pending") =>
             calls[Len(calls)].id \notin pg_statistic

\* a later run over table a, which has no statistics in a new session, found
\* the statistics of an earlier run and ended its loop without collecting
C6_Witness ==
    /\ ExpansionDone
    /\ pgds_tableoid_array = <<1>>
    /\ stack[1].pc = "maintain"
    /\ stack[1].i = 2
    /\ calls = <<Call("lookup", 1, "r"), Call("hasStatistics", 1, "1")>>

\* C7: a collectStatistics call that returned a failure is the last call of
\* its run, and the run has ended with a fatal error: no later table is
\* checked or analysed and the call is not repeated.
C7_MaintenanceFailureAborts ==
    \A c \in 1..Len(calls) :
        (calls[c].op = "collectStatistics"
            /\ calls[c].res \notin {"pending", "SPI_OK_UTILITY"}) =>
           /\ c = Len(calls)
           /\ outcome = "fatal"
           /\ stack = <<>>

\* the ANALYZE of the first of two tables failed
C7_Witness ==
    /\ outcome = "fatal"
    /\ calls # <<>>
    /\ calls[Len(calls)].op = "collectStatistics"
    /\ calls[Len(calls)].res = "SPI_ERROR_ARGUMENT"
    /\ pgds_table_index >= 2
    /\ calls[Len(calls)].id = pgds_tableoid_array[1]
    /\ pgds_tableoid_array[2] # pgds_tableoid_array[1]

\* the table insertions that the expansion of the relations arr[k..] makes
RECURSIVE TableInsertions(_, _)
TableInsertions(arr, k) ==
    IF k > Len(arr) THEN <<>>
    ELSE LET id == arr[k]
             rows == SelectSeq(find_tables(id), IsTableRow)
             own == IF id \notin DOMAIN pg_class THEN <<>>
                    ELSE IF pg_class[id].relkind \in {"r", "p"} THEN <<id>>
                    ELSE [n \in 1..Len(rows) |-> rows[n].id]
         IN own \o TableInsertions(arr, k + 1)

\* C8: the reference set never holds more than MAX_REL ids and the
\* resolved-table sequence never more than MAX_TABLE entries; a run that goes
\* on after the walk has every id of its query in the reference set, and a run
\* that goes on after the expansion has every table insertion in the
\* sequence (none was dropped); a run that ended with an error ended on a
\* full array.
C8_CapacityExceededAborts ==
    /\ pgds_rel_index <= MAX_REL
    /\ pgds_table_index <= MAX_TABLE
    /\ Running => Elems(pgds_rel_array) = RefIds(stack[1].query)
    /\ ExpansionDone => pgds_tableoid_array = TableInsertions(pgds_rel_array, 1)
    /\ outcome = "error" =>
          /\ stack = <<>>
          /\ pgds_rel_index = MAX_REL \/ pgds_table_index = MAX_TABLE

\* the expansion ran into the full table sequence
C8_Witness ==
    /\ outcome = "error"
    /\ pgds_table_index = MAX_TABLE
    /\ calls # <<>>
    /\ calls[Len(calls)].op \in {"lookup", "expandView"}

\* C9: every entry of the resolved-table sequence is, by the catalog, an
\* ordinary table or a partitioned table.
C9_OnlyTablesResolved ==
    \A k \in 1..pgds_table_index :
        /\ pgds_tableoid_array[k] \in DOMAIN pg_class
        /\ pg_class[pgds_tableoid_array[k]].relkind \in {"r", "p"}

\* the partitioned table p, named directly, and the view w, whose expansion
\* returns rows of a view and of tables, were resolved
C9_Witness ==
    /\ ExpansionDone
    /\ pgds_rel_array = <<3, 5>>
    /\ pgds_tableoid_array = <<3, 1, 2>>

\* C10: when the expansion of a run has ended, every partitioned table that
\* the expansion of a view of the reference set returned is in the
\* resolved-table sequence.
C10_PartitionedDependencyAdded ==
    ExpansionDone =>
        \A v \in Elems(pgds_rel_array) \cap Views :
            Dependencies(v, {"p"}) \subseteq Elems(pgds_tableoid_array)

\* C11: the sentinel id 0 is in no reference set and in no resolved-table
\* sequence, and no catalog call is about it.
C11_SentinelInNoSet ==
    /\ InvalidOid \notin Elems(pgds_rel_array)
    /\ InvalidOid \notin Elems(pgds_tableoid_array)
    /\ \A c \in 1..Len(calls) : calls[c].id # InvalidOid

Collected == stack # <<>> /\ stack[1].pc = "collected"

\* C12: the reference set the collector builds holds exactly the ids of the
\* direct relation entries reachable from the root through range-table
\* sub-queries, CTE definitions and sub-links at any depth, each id once;
\* the walk raises an error only when these ids are more than MAX_REL, so a
\* tree without relation entries yields the empty set and no error.
C12_ReferenceSetExact ==
    Collected =>
        LET ids == RefIds(stack[1].query)
        IN IF outcome = "error"
           THEN Cardinality(ids) > MAX_REL
           ELSE /\ Elems(pgds_rel_array) = ids
                /\ Len(pgds_rel_array) = Cardinality(ids)

\* a tree that names a and b through all three channels, each more than once
C12_Witness ==
    /\ Collected
    /\ outcome = "returned"
    /\ stack[1].query = Query(<<RelationRte(1), SubqueryRte(Query(<<RelationRte(2)>>, <<>>, <<>>))>>,
                              <<Query(<<RelationRte(1)>>, <<>>, <<>>)>>,
                              <<Query(<<RelationRte(2)>>, <<>>, <<>>)>>)
    /\ pgds_rel_array = <<1, 2>>

StatsOps == {"hasStatistics", "collectStatistics"}

\* answers of a lookup for an id that is in the catalog as a table or a view
KnownKinds == {"r", "p", "v"}

\* the lookup logged at c found no row, or a relation of another kind
Offending(c) ==
    /\ calls[c].op = "lookup"
    /\ calls[c].res \in ({"0 rows"} \cup {pg_class[o].relkind : o \in DOMAIN pg_class})
                        \ KnownKinds

C14_PhasesInOrder ==
    /\ (Running /\ calls # <<>>) => Elems(pgds_rel_array) = RefIds(stack[1].query)
    /\ \A c \in 1..Len(calls) : \A d \in c..Len(calls) :
           calls[c].op \in StatsOps => calls[d].op \in StatsOps
    /\ (\E d \in 1..Len(calls) : calls[d].op \in StatsOps) =>
           \A id \in Elems(pgds_rel_array) \ {InvalidOid} :
               /\ \E c \in 1..Len(calls) :
                      calls[c].op = "lookup" /\ calls[c].id = id /\ calls[c].res \in KnownKinds
               /\ id \in Views =>
                      \E c \in 1..Len(calls) : calls[c] = Call("expandView", id, "SPI_OK_SELECT")

\* view v and table p were both expanded before the first hasStatistics call
C14_Witness ==
    /\ ExpansionDone
    /\ pgds_rel_array = <<4, 3>>
    /\ Len(calls) = 4
    /\ calls[2] = Call("expandView", 4, "SPI_OK_SELECT")
    /\ calls[3] = Call("lookup", 3, "p")
    /\ calls[4].op = "hasStatistics"

\* the first state of a run: the walk is done, nothing is expanded yet
RunStarts == Running /\ stack[1].pc = "expand" /\ stack[1].i = 1 /\ calls = <<>>

\* C15: whatever statements came before, a run that passes the guard starts
\* from pgds_rel_index = 0 and pgds_table_index = 0: whenever the guard is
\* clear the arrays are empty, and a run starts with exactly the ids of its
\* own query in the reference set and with no table.
C15_RunStartsEmpty ==
    /\ pgds_avoid_recursion = 0 =>
           pgds_rel_index = 0 /\ pgds_table_index = 0 /\ pgds_tablename_array = <<>>
                              /\ pgds_tableowner_array = <<>>
    /\ RunStarts =>
           /\ Elems(pgds_rel_array) = RefIds(stack[1].query)
           /\ Len(pgds_rel_array) = Cardinality(RefIds(stack[1].query))
           /\ pgds_table_index = 0

\* a run for table b starts after an earlier run has analysed table a
C15_Witness ==
    /\ RunStarts
    /\ 1 \in pg_statistic
    /\ pgds_rel_array = <<2>>
    /\ pgds_tableoid_array = <<>>

\* the maintenance loop of the run has gone through the whole table sequence
MaintenanceDone ==
    Running /\ stack[1].pc = "maintain" /\ stack[1].i > pgds_table_index

\* the tables a query reads once its views are expanded
Closure(q) ==
    {id \in RefIds(q) \cap DOMAIN pg_class : IsTableKind(pg_class[id].relkind)}
    \cup UNION {Dependencies(v, {"r", "p"}) : v \in RefIds(q) \cap Views}

StatChecks(id) == {c \in 1..Len(calls) : calls[c].op = "hasStatistics" /\ calls[c].id = id}

\* table id had no statistics when the run started: its first check in this
\* run said so, or it was never checked and has none now
LackedStatistics(id) ==
    IF StatChecks(id) = {}
    THEN id \notin pg_statistic
    ELSE calls[CHOOSE c \in StatChecks(id) : \A d \in StatChecks(id) : c <= d].res = "0"

Collects(id) ==
    Cardinality({c \in 1..Len(calls) : calls[c].op = "collectStatistics" /\ calls[c].id = id})

\* C16: a superuser's run over a query whose closure tables all lacked
\* statistics has, when its maintenance loop ends, made exactly one
\* collectStatistics call for each table of the closure and none for a view.
C16_OneCollectPerTable ==
    (/\ MaintenanceDone
     /\ principal.superuser
     /\ \A t \in Closure(stack[1].query) : LackedStatistics(t))
    => /\ \A t \in Closure(stack[1].query) : Collects(t) = 1
       /\ \A v \in Views : Collects(v) = 0

\* the frames in which the pipeline body is active
ActiveFrames == {k \in 1..Len(stack) : stack[k].pc \notin HookPcs}

\* C17: the pipeline body is active in at most one frame of the call stack,
\* the outermost one, with at most one invocation nested in it; and, when
\* every SPI_execute returns in the end, every invocation of the hook for a
\* top-level statement returns or aborts.
C17_Terminates ==
    /\ [](ActiveFrames \subseteq {1} /\ Len(stack) <= 2)
    /\ (stack # <<>>) ~> (stack = <<>>)

\* a statement that pgds.c runs to check the statistics came back into the
\* hook while the run was in its maintenance phase
C17_Witness ==
    /\ Len(stack) = 2
    /\ stack[1].pc = "spi_stat"
    /\ stack[2].pc = "hook"
    /\ pgds_tableoid_array = <<1, 2>>

\* an invocation returns to its caller
ReturnStep ==
    /\ stack # <<>>
    /\ stack' = SubSeq(stack, 1, Len(stack) - 1)
    /\ outcome' \notin {"error", "fatal"}

\* an invocation gets past the call of the previous hook
PrevHookCallStep ==
    /\ stack # <<>>
    /\ Len(stack') = Len(stack)
    /\ Top.pc # "exit"
    /\ stack'[Len(stack')].pc = "exit"

\* an invocation returns from behind the call of the previous hook exactly
\* when a previous hook is installed; the call is made by an invocation that
\* is past its pipeline part, and is the only thing that step does
C18_Step ==
    /\ ReturnStep => Top.pc = (IF prev_post_parse_analyze_hook # NULL THEN "exit" ELSE "hook")
    /\ PrevHookCallStep =>
          /\ prev_post_parse_analyze_hook # NULL
          /\ Top.pc = "hook"
          /\ stack' = [stack EXCEPT ![Len(stack)].pc = "exit"]
          /\ UNCHANGED <<pgds_avoid_recursion, pgds_rel_array, tablevars, pg_statistic, calls>>
    /\ UNCHANGED prev_post_parse_analyze_hook

\* an invocation that is at the previous hook has its pipeline part behind
\* it: it skipped the pipeline, or it ran it to the end of the guarded block
C18_Inv ==
    \A k \in 1..Len(stack) :
        (stack[k].pc \in HookPcs /\ stack[k].query # NULL) =>
            /\ k = 1 /\ Len(stack) = 1
            /\ pgds_avoid_recursion = 0
            /\ pgds_rel_index = 0 /\ pgds_table_index = 0

\* C18: every invocation of pgds_analyze that returns has called the
\* previous hook exactly once when one is installed and not at all when none
\* is, and the call comes after the pipeline part, both for an invocation
\* that ran the pipeline and for one that skipped it.
C18_PrevHookChained == []C18_Inv /\ [][C18_Step]_vars

\* a previous hook is installed and has been called by an invocation that
\* ran the pipeline and analysed table a
C18_Witness ==
    /\ prev_post_parse_analyze_hook = PrevHook
    /\ Len(stack) = 1
    /\ stack[1].pc = "exit"
    /\ stack[1].query # NULL
    /\ Len(calls) = 3
    /\ calls[3] = Call("collectStatistics", 1, "SPI_OK_UTILITY")

====
